---- MODULE Spec2Model ----
(***************************************************************************)
(* State-machine model of hla_pipeline: the imputation verifier            *)
(* (verifier.py), the sub-batch splitter (executor.py), the result         *)
(* deployer (deployer.py) and the clinical reporter (reporter.py).         *)
(*                                                                         *)
(* Text is modelled as tuples of one-character strings, so that substring  *)
(* tests, case folding, stripping and lexical order are computed and not   *)
(* assumed.  A file is a sequence of lines; a directory maps names to      *)
(* entries.                                                                *)
(***************************************************************************)
EXTENDS Integers, Sequences, FiniteSets, TLC

VARIABLES
    status,      \* a SubBatchStatus object held by a caller
    fs,          \* the batch directory the verifier reads: name -> entry
    vresult,     \* outcome of the last verify_sub_batch call
    report,      \* a VerificationReport object / outcome of verify_batch
    fam_file,    \* the lines of the .fam file given to split_fam
    output_dir,  \* the directory split_fam writes: [exists, files: name -> entry]
    sub_batch_size, \* PipelineConfig.sub_batch_size of the executor
    sresult,     \* outcome of the last split_fam call
    source,      \* the directory deploy copies from: name -> content
    target,      \* the production directory: [exists, files: name -> content]
    backups,     \* the backup root: timestamp -> (name -> content)
    clock,       \* the wall clock, in seconds
    dreport,     \* outcome of the last deploy call
    dosage_file, \* the dosage file given to generate_report: [header, rows]
    thresholds,  \* the ClinicalReporter's homo_threshold and hetero_threshold
    creport      \* outcome of the last _call_genotype / generate_report call

statusVars == <<status>>
verifyVars == <<fs, vresult, report>>
splitVars == <<fam_file, output_dir, sub_batch_size, sresult>>
deployVars == <<source, target, backups, clock, dreport>>
clinVars == <<dosage_file, thresholds, creport>>
vars == <<statusVars, verifyVars, splitVars, deployVars, clinVars>>

(***************************************************************************)
(* Bounds of the model.                                                    *)
(***************************************************************************)
MaxCount == 2    \* largest hla_marker_count a caller assigns
MaxLines == 2    \* most lines written to one artifact file
MaxSubs == 2     \* most sub-batches of one batch in a gathered report
MaxFam == 4      \* most lines of the .fam file given to split_fam
MaxBatch == 3    \* largest batch_size passed to split_fam
MaxClock == 1    \* last second the wall clock reaches
MaxDosage == 20  \* largest dosage classified, in tenths
MaxRows == 2     \* most data rows of a dosage file
MaxDigits == 3   \* most digits of 10^d, the chunk indexes taken around it

(***************************************************************************)
(* Characters and strings.                                                 *)
(***************************************************************************)
\* The characters used, in code-point order (a subset of ASCII).
Ascii ==
    << "\t", "\n", " ", "-", ".", "0", "1", "2", "3", "4", "5", "6", "7", "8", "9",
       "A", "B", "C", "D", "E", "F", "G", "H", "I", "J", "K", "L", "M",
       "N", "O", "P", "Q", "R", "S", "T", "U", "V", "W", "X", "Y", "Z",
       "_",
       "a", "b", "c", "d", "e", "f", "g", "h", "i", "j", "k", "l", "m",
       "n", "o", "p", "q", "r", "s", "t", "u", "v", "w", "x", "y", "z" >>

\* A byte that is no valid UTF-8 sequence (0xFF).
BadByte == "0xFF"

Ord(c) == CHOOSE i \in DOMAIN Ascii : Ascii[i] = c

IsUpper(c) == \E i \in DOMAIN Ascii : Ascii[i] = c /\ Ord("A") <= i /\ i <= Ord("Z")

\* str.lower() on one character, then on a string.
LowerChar(c) == IF IsUpper(c) THEN Ascii[Ord(c) + (Ord("a") - Ord("A"))] ELSE c
Lower(s) == [i \in DOMAIN s |-> LowerChar(s[i])]

\* Python's `pat in s` for strings.
Contains(s, pat) ==
    \E i \in 0..(Len(s) - Len(pat)) :
        \A j \in 1..Len(pat) : s[i + j] = pat[j]

\* Text-mode decoding of one line: fails on an invalid byte.
Decodable(line) == \A i \in DOMAIN line : line[i] /= BadByte

(***************************************************************************)
(* verifier.py: SubBatchStatus                                             *)
(***************************************************************************)
\* The dataclass constructor with its field defaults.
SubBatchStatus(n) ==
    [ name |-> n,
      has_bed |-> FALSE, has_bim |-> FALSE, has_fam |-> FALSE,
      has_dosage |-> FALSE, has_r2 |-> FALSE, has_log |-> FALSE,
      hla_marker_count |-> 0, beagle_completed |-> FALSE ]

\* Python's all() over a list of truth values.
All(list) == \A i \in DOMAIN list : list[i]

is_complete_no_marker_check(s) ==
    All(<< s.has_bed, s.has_bim, s.has_fam,
           s.has_dosage, s.has_r2, s.has_log,
           s.hla_marker_count >= 0, s.beagle_completed >>)

is_complete(s) ==
    All(<< s.has_bed, s.has_bim, s.has_fam,
           s.has_dosage, s.has_r2, s.has_log,
           s.hla_marker_count > 0, s.beagle_completed >>)

BoolFields == {"has_bed", "has_bim", "has_fam", "has_dosage", "has_r2",
               "has_log", "beagle_completed"}

\* A caller assigns one field of the (mutable) dataclass.
AssignFlag(f, v) ==
    /\ status' = [status EXCEPT ![f] = v]
    /\ UNCHANGED <<verifyVars, splitVars, deployVars, clinVars>>

AssignMarkerCount(n) ==
    /\ status' = [status EXCEPT !.hla_marker_count = n]
    /\ UNCHANGED <<verifyVars, splitVars, deployVars, clinVars>>

(***************************************************************************)
(* Paths and directory entries.                                            *)
(***************************************************************************)
\* A directory is a function from the names it holds to their entries.
EmptyDir == [n \in {} |-> 0]
File(lines) == [kind |-> "file", lines |-> lines]
Directory == [kind |-> "dir", lines |-> <<>>]

\* Path.exists() for a name of directory d.
Exists(d, n) == n \in DOMAIN d

\* The directory after name n is written or replaced, and after it is removed.
Put(d, n, e) == [m \in DOMAIN d \cup {n} |-> IF m = n THEN e ELSE d[m]]
Del(d, n) == [m \in DOMAIN d \ {n} |-> d[m]]

\* str.rfind(".") + 1: the 1-based position of the last dot, 0 when none.
RFindDot(n) ==
    IF \E i \in DOMAIN n : n[i] = "."
    THEN CHOOSE i \in DOMAIN n : n[i] = "." /\ \A j \in DOMAIN n : n[j] = "." => j <= i
    ELSE 0

\* PurePath.suffix: the last dot and what follows it, unless the dot is the
\* first or the last character of the name.
Suffix(n) ==
    IF 1 < RFindDot(n) /\ RFindDot(n) < Len(n)
    THEN SubSeq(n, RFindDot(n), Len(n))
    ELSE <<>>

\* PurePath.with_suffix(suffix) for a non-empty name.
WithSuffix(n, suffix) == SubSeq(n, 1, Len(n) - Len(Suffix(n))) \o suffix

BED == <<".", "b", "e", "d">>
BIM == <<".", "b", "i", "m">>
FAM == <<".", "f", "a", "m">>
DOSAGE == <<".", "d", "o", "s", "a", "g", "e">>
BGL_R2 == <<".", "b", "g", "l", ".", "r", "2">>
BGL_LOG == <<".", "b", "g", "l", ".", "l", "o", "g">>

HLA_ == <<"H", "L", "A", "_">>
finished == <<"f", "i", "n", "i", "s", "h", "e", "d">>
completed == <<"c", "o", "m", "p", "l", "e", "t", "e", "d">>

\* Outcomes of a call: a returned value, or an exception that propagates.
Returned(v) == [outcome |-> "returned", value |-> v]
Raised(e) == [outcome |-> "raised", value |-> e]
NoCall == [outcome |-> "none", value |-> "none"]

\* open(path) followed by iteration over all the lines of the file.
ReadError(e) ==
    IF e.kind = "dir" THEN "IsADirectoryError"
    ELSE IF \E i \in DOMAIN e.lines : ~Decodable(e.lines[i]) THEN "UnicodeDecodeError"
    ELSE "ok"

(***************************************************************************)
(* verifier.py: ImputationVerifier                                         *)
(***************************************************************************)
RECURSIVE CountMatching(_, _)
CountMatching(lines, pat) ==
    IF lines = <<>> THEN 0
    ELSE (IF Contains(Head(lines), pat) THEN 1 ELSE 0) + CountMatching(Tail(lines), pat)

\* _count_hla_markers(bim_path): the path is a name of directory d.
count_hla_markers(d, n) ==
    IF ~Exists(d, n) THEN Returned(0)
    ELSE IF ReadError(d[n]) /= "ok" THEN Raised(ReadError(d[n]))
    ELSE Returned(CountMatching(d[n].lines, HLA_))

IsCompletionLine(line) ==
    Contains(Lower(line), finished) \/ Contains(Lower(line), completed)

\* The loop of _check_beagle_log over lines that are decoded one at a time.
RECURSIVE ScanLog(_)
ScanLog(lines) ==
    IF lines = <<>> THEN Returned(FALSE)
    ELSE IF ~Decodable(Head(lines)) THEN Raised("UnicodeDecodeError")
    ELSE IF IsCompletionLine(Head(lines)) THEN Returned(TRUE)
    ELSE ScanLog(Tail(lines))

\* _check_beagle_log(log_path).  The text layer decodes the file a buffer at a
\* time: with oneBuffer the whole file is decoded by the first read, so an
\* invalid byte anywhere raises; otherwise the lines before it are seen first.
check_beagle_log(d, n, oneBuffer) ==
    IF ~Exists(d, n) THEN Returned(FALSE)
    ELSE IF d[n].kind = "dir" THEN Raised("IsADirectoryError")
    ELSE IF oneBuffer /\ ReadError(d[n]) /= "ok" THEN Raised(ReadError(d[n]))
    ELSE ScanLog(d[n].lines)

\* verify_sub_batch(prefix), prefix a non-empty name of directory d.
verify_sub_batch(d, prefix, oneBuffer) ==
    LET flags == [ SubBatchStatus(prefix) EXCEPT
                     !.has_bed = Exists(d, WithSuffix(prefix, BED)),
                     !.has_bim = Exists(d, WithSuffix(prefix, BIM)),
                     !.has_fam = Exists(d, WithSuffix(prefix, FAM)),
                     !.has_dosage = Exists(d, WithSuffix(prefix, DOSAGE)),
                     !.has_r2 = Exists(d, prefix \o BGL_R2),
                     !.has_log = Exists(d, prefix \o BGL_LOG) ]
        markers == IF flags.has_bim
                   THEN count_hla_markers(d, WithSuffix(prefix, BIM))
                   ELSE Returned(flags.hla_marker_count)
        beagle == IF flags.has_log
                  THEN check_beagle_log(d, prefix \o BGL_LOG, oneBuffer)
                  ELSE Returned(flags.beagle_completed)
    IN  IF markers.outcome = "raised" THEN markers
        ELSE IF beagle.outcome = "raised" THEN beagle
        ELSE Returned([flags EXCEPT !.hla_marker_count = markers.value,
                                    !.beagle_completed = beagle.value])

\* str.endswith(suffix), which decides fnmatch against "*" + suffix.
EndsWith(n, suffix) ==
    /\ Len(n) >= Len(suffix)
    /\ SubSeq(n, Len(n) - Len(suffix) + 1, Len(n)) = suffix

\* Path.glob("*" + ext): the names of directory d that match, in no order.
Glob(d, ext) == {n \in DOMAIN d : EndsWith(n, ext)}

\* String order: by code point at the first difference, a prefix first.
LexLess(a, b) ==
    \/ /\ Len(a) < Len(b)
       /\ SubSeq(b, 1, Len(a)) = a
    \/ \E i \in 1..Len(a) :
          /\ i <= Len(b)
          /\ SubSeq(a, 1, i - 1) = SubSeq(b, 1, i - 1)
          /\ Ord(a[i]) < Ord(b[i])

\* sorted() of a set of names.
RECURSIVE Sorted(_)
Sorted(S) ==
    IF S = {} THEN <<>>
    ELSE LET least == CHOOSE n \in S : \A m \in S \ {n} : LexLess(n, m)
         IN  <<least>> \o Sorted(S \ {least})

\* The loop of verify_batch: one verify_sub_batch per .fam path, in order; an
\* exception of a call ends the loop and propagates.
RECURSIVE VerifyEach(_, _, _)
VerifyEach(d, fams, oneBuffer) ==
    IF fams = <<>> THEN Returned(<<>>)
    ELSE LET first == verify_sub_batch(d, WithSuffix(Head(fams), <<>>), oneBuffer)
             rest == VerifyEach(d, Tail(fams), oneBuffer)
         IN  IF first.outcome = "raised" THEN first
             ELSE IF rest.outcome = "raised" THEN rest
             ELSE Returned(<<first.value>> \o rest.value)

\* verify_batch(batch_dir, batch_id): d is the content of batch_dir and
\* dirName is batch_dir.name; an empty batch_id is falsy.
verify_batch(d, dirName, batch_id, oneBuffer) ==
    LET bid == IF batch_id /= <<>> THEN batch_id ELSE dirName
        sub_statuses == VerifyEach(d, Sorted(Glob(d, FAM)), oneBuffer)
    IN  IF sub_statuses.outcome = "raised" THEN sub_statuses
        ELSE Returned([b \in {bid} |-> sub_statuses.value])

(***************************************************************************)
(* verifier.py: VerificationReport                                         *)
(***************************************************************************)
\* sum(len(v) for v in batch_statuses.values())
RECURSIVE SumLengths(_, _)
SumLengths(batch_statuses, keys) ==
    IF keys = {} THEN 0
    ELSE LET k == CHOOSE k \in keys : TRUE
         IN  Len(batch_statuses[k]) + SumLengths(batch_statuses, keys \ {k})

total_sub_batches(r) == SumLengths(r, DOMAIN r)

\* sum(1 for s in subs if s.is_complete)
RECURSIVE CountComplete(_)
CountComplete(subs) ==
    IF subs = <<>> THEN 0
    ELSE (IF is_complete(Head(subs)) THEN 1 ELSE 0) + CountComplete(Tail(subs))

RECURSIVE SumComplete(_, _)
SumComplete(batch_statuses, keys) ==
    IF keys = {} THEN 0
    ELSE LET k == CHOOSE k \in keys : TRUE
         IN  CountComplete(batch_statuses[k]) + SumComplete(batch_statuses, keys \ {k})

complete_sub_batches(r) == SumComplete(r, DOMAIN r)

\* Python's true division of two ints: a ratio, or ZeroDivisionError.
TrueDiv(a, b) ==
    IF b = 0 THEN Raised("ZeroDivisionError")
    ELSE Returned([num |-> a, den |-> b])

\* The float 0.0.
FloatZero == [num |-> 0, den |-> 1]

completeness_rate_unguarded(r) ==
    TrueDiv(complete_sub_batches(r), total_sub_batches(r))

completeness_rate(r) ==
    IF total_sub_batches(r) = 0 THEN Returned(FloatZero)
    ELSE TrueDiv(complete_sub_batches(r), total_sub_batches(r))

(***************************************************************************)
(* executor.py: BatchExecutor.split_fam                                    *)
(***************************************************************************)
\* PipelineConfig.sub_batch_size default.
DefaultSubBatchSize == 500

Whitespace == {"\t", "\n", " "}

\* str.strip(): leading and trailing whitespace removed.
RECURSIVE LStrip(_)
LStrip(s) == IF s /= <<>> /\ Head(s) \in Whitespace THEN LStrip(Tail(s)) ELSE s

RECURSIVE RStrip(_)
RStrip(s) ==
    IF s /= <<>> /\ s[Len(s)] \in Whitespace THEN RStrip(SubSeq(s, 1, Len(s) - 1)) ELSE s

Strip(s) == RStrip(LStrip(s))

\* [line.strip() for line in fh if line.strip()]
RECURSIVE ReadSamples(_)
ReadSamples(lines) ==
    IF lines = <<>> THEN <<>>
    ELSE (IF Strip(Head(lines)) /= <<>> THEN <<Strip(Head(lines))>> ELSE <<>>)
         \o ReadSamples(Tail(lines))

\* "\n".join(chunk) + "\n"
RECURSIVE JoinLines(_)
JoinLines(chunk) ==
    IF chunk = <<>> THEN <<"\n">>
    ELSE IF Len(chunk) = 1 THEN Head(chunk) \o <<"\n">>
    ELSE Head(chunk) \o <<"\n">> \o JoinLines(Tail(chunk))

\* The decimal digits of k >= 0, and the format spec 03d: zeros in front up
\* to a width of three, and every digit of a wider number.
RECURSIVE Digits(_)
Digits(k) ==
    IF k < 10 THEN <<Ascii[Ord("0") + k]>>
    ELSE Digits(k \div 10) \o <<Ascii[Ord("0") + (k % 10)]>>

Format03d(k) ==
    LET d == Digits(k)
    IN  IF Len(d) >= 3 THEN d ELSE [i \in 1..(3 - Len(d)) |-> "0"] \o d

\* f"sub_batch_{k:03d}.fam"
SubBatchName(k) ==
    <<"s", "u", "b", "_", "b", "a", "t", "c", "h", "_">> \o Format03d(k) \o FAM

\* samples[i : i + batch_size] for 0 <= i < len(samples), batch_size > 0
Chunk_short(samples, i, batch_size) ==
    SubSeq(samples, i + 1, IF i + batch_size - 1 < Len(samples)
                           THEN i + batch_size - 1 ELSE Len(samples))

Chunk(samples, i, batch_size) ==
    SubSeq(samples, i + 1, IF i + batch_size < Len(samples)
                           THEN i + batch_size ELSE Len(samples))

\* A text file written by Path.write_text.
TextFile(text) == [kind |-> "file", text |-> text]

\* The loop over range(0, len(samples), batch_size) for batch_size > 0, from
\* index i on: the files written and the paths appended, in order.
RECURSIVE SplitLoop(_, _, _)
SplitLoop(samples, i, batch_size) ==
    IF i >= Len(samples) THEN <<>>
    ELSE << [ name |-> SubBatchName(i \div batch_size + 1),
              text |-> JoinLines(Chunk(samples, i, batch_size)) ] >>
         \o SplitLoop(samples, i + batch_size, batch_size)

\* Path.write_text opening the file to append, not to truncate: what an
\* existing file holds stays in front of the new text.
RECURSIVE WriteAll_append(_, _)
WriteAll_append(d, writes) ==
    IF writes = <<>> THEN d
    ELSE LET n == Head(writes).name
             old == IF Exists(d, n) THEN d[n].text ELSE <<>>
         IN  WriteAll_append(Put(d, n, TextFile(old \o Head(writes).text)), Tail(writes))

\* sub_path.write_text(...) of every chunk in turn: the file is created, or
\* truncated and written anew.
RECURSIVE WriteAll(_, _)
WriteAll(d, writes) ==
    IF writes = <<>> THEN d
    ELSE WriteAll(Put(d, Head(writes).name, TextFile(Head(writes).text)), Tail(writes))

\* The batch_size argument: None, or an int.
None == [given |-> FALSE, n |-> 0]
Int_(n) == [given |-> TRUE, n |-> n]

\* batch_size or self.config.sub_batch_size (None and 0 are falsy)
EffectiveBatchSize(arg, config_size) ==
    IF arg.given /\ arg.n /= 0 THEN arg.n ELSE config_size

\* split_fam(fam_path, output_dir, batch_size): the directory afterwards and
\* the outcome.  The directory is made before the input is read; a step of 0
\* makes range() raise ValueError; a negative step makes it empty.
split_fam(lines, dir, arg, config_size) ==
    LET batch_size == EffectiveBatchSize(arg, config_size)
        made == [exists |-> TRUE, files |-> dir.files]
        samples == ReadSamples(lines)
        writes == IF batch_size > 0 THEN SplitLoop(samples, 0, batch_size) ELSE <<>>
    IN  IF batch_size = 0
        THEN [dir |-> made, result |-> Raised("ValueError")]
        ELSE [ dir |-> [made EXCEPT !.files = WriteAll(@, writes)],
               result |-> Returned([k \in DOMAIN writes |-> writes[k].name]) ]

(***************************************************************************)
(* deployer.py: ResultDeployer                                             *)
(***************************************************************************)
DEFAULT_EXTENSIONS == <<BED, BIM, FAM>>

\* A directory listing (glob, iterdir) comes in an order the OS chooses.
Listing(S, order) ==
    IF order = "asc" THEN Sorted(S)
    ELSE [i \in 1..Cardinality(S) |-> Sorted(S)[Cardinality(S) + 1 - i]]

\* for ext in extensions: for f in dir.glob(f"*{ext}"): the names met, in order.
RECURSIVE GlobAll(_, _, _)
GlobAll(d, extensions, order) ==
    IF extensions = <<>> THEN <<>>
    ELSE Listing(Glob(d, Head(extensions)), order) \o GlobAll(d, Tail(extensions), order)

\* shutil.copy2 of each listed name from one directory into another.
RECURSIVE CopyAll(_, _, _)
CopyAll(from, to, names) ==
    IF names = <<>> THEN to
    ELSE CopyAll(from, Put(to, Head(names), from[Head(names)]), Tail(names))

\* _create_backup(): the backup root afterwards; ts is the formatted time.
\* mkdir(exist_ok=True) keeps a directory that a backup of the same second made.
create_backup(tgt, bkp, ts, order) ==
    LET backup_dir == IF ts \in DOMAIN bkp THEN bkp[ts] ELSE EmptyDir
    IN  Put(bkp, ts, CopyAll(tgt.files, backup_dir, GlobAll(tgt.files, DEFAULT_EXTENSIONS, order)))

\* The DeploymentReport constructor; backup_dir "" is written -1.
DeploymentReport ==
    [ backup_dir |-> -1, files_deployed |-> <<>>, files_backed_up |-> <<>>,
      verified |-> FALSE ]

\* The target after the Deploy block of deploy().
DeployBlock(tgt, src, files_to_deploy, dry_run) ==
    [ exists |-> TRUE,
      files |-> IF dry_run THEN tgt.files ELSE CopyAll(src, tgt.files, files_to_deploy) ]

\* The backup root after the Backup block of deploy().
BackupBlock_none(tgt, bkp, ts, order, dry_run) == bkp

BackupBlock(tgt, bkp, ts, order, dry_run) ==
    IF ~dry_run /\ tgt.exists THEN create_backup(tgt, bkp, ts, order) ELSE bkp

\* deploy(source_dir, dry_run): the target, the backup root and the report
\* afterwards.
deploy(src, tgt, bkp, ts, dry_run, order) ==
    LET files_to_deploy == GlobAll(src, DEFAULT_EXTENSIONS, order)
        backed == ~dry_run /\ tgt.exists
        bkp2 == BackupBlock(tgt, bkp, ts, order, dry_run)
        tgt2 == DeployBlock(tgt, src, files_to_deploy, dry_run)
    IN  IF files_to_deploy = <<>>
        THEN [target |-> tgt, backups |-> bkp, report |-> DeploymentReport]
        ELSE [ target |-> tgt2,
               backups |-> bkp2,
               report |->
                 [ backup_dir |-> IF backed THEN ts ELSE -1,
                   files_deployed |-> files_to_deploy,
                   files_backed_up |->
                       IF backed /\ ts \in DOMAIN bkp2
                       THEN Listing(DOMAIN bkp2[ts], order) ELSE <<>>,
                   verified |->
                       /\ ~dry_run
                       /\ \A i \in DOMAIN files_to_deploy :
                             Exists(tgt2.files, files_to_deploy[i]) ] ]

(***************************************************************************)
(* reporter.py: ClinicalReporter                                           *)
(* A float is written in tenths: 1.5 is Float(15); NaN compares false.     *)
(***************************************************************************)
Float(v) == [nan |-> FALSE, v |-> v]
NaN == [nan |-> TRUE, v |-> 0]

\* float >= float and float > float.
Ge(a, b) == ~a.nan /\ ~b.nan /\ a.v >= b.v
Gt(a, b) == ~a.nan /\ ~b.nan /\ a.v > b.v

\* The constructor's default thresholds, 1.5 and 0.5.
DefaultHomozygous == 15
DefaultHeterozygous == 5

\* ClinicalReporter.__init__
ClinicalReporter(homozygous_threshold, heterozygous_threshold) ==
    [ homo_threshold |-> Float(homozygous_threshold),
      hetero_threshold |-> Float(heterozygous_threshold) ]

call_genotype_inclusive(self, dosage) ==
    IF Ge(dosage, self.homo_threshold) THEN "homozygous"
    ELSE IF Ge(dosage, self.hetero_threshold) THEN "heterozygous"
    ELSE "negative"

\* _call_genotype(dosage)
call_genotype(self, dosage) ==
    IF Ge(dosage, self.homo_threshold) THEN "homozygous"
    ELSE IF Gt(dosage, self.hetero_threshold) THEN "heterozygous"
    ELSE "negative"

\* A value that may be None.
PyNone == [none |-> TRUE, s |-> <<>>]
Str(s) == [none |-> FALSE, s |-> s]

\* The position of a column in the header, 0 when the header lacks it.
ColumnIndex(header, col) ==
    IF \E i \in DOMAIN header : header[i] = col
    THEN CHOOSE i \in DOMAIN header : header[i] = col
    ELSE 0

\* row.get(col, default) on a csv.DictReader row: a row shorter than the header
\* has None for the fields it lacks.
RowGet(header, row, col, default) ==
    IF ColumnIndex(header, col) = 0 THEN Str(default)
    ELSE IF ColumnIndex(header, col) > Len(row) THEN PyNone
    ELSE Str(row[ColumnIndex(header, col)])

IsDigit(c) == c \in {"0", "1", "2", "3", "4", "5", "6", "7", "8", "9"}
DigitValue(c) == Ord(c) - Ord("0")

\* float(x) for None and for strings of the shapes "d", "d.d" and "nan" (any
\* other string of the model is no number); surrounding whitespace is ignored.
float_(x) ==
    IF x.none THEN Raised("TypeError")
    ELSE LET t == Strip(x.s)
         IN  IF Lower(t) = <<"n", "a", "n">> THEN Returned(NaN)
             ELSE IF Len(t) = 1 /\ IsDigit(t[1])
                  THEN Returned(Float(10 * DigitValue(t[1])))
             ELSE IF Len(t) = 3 /\ IsDigit(t[1]) /\ t[2] = "." /\ IsDigit(t[3])
                  THEN Returned(Float(10 * DigitValue(t[1]) + DigitValue(t[3])))
             ELSE Raised("ValueError")

IID == <<"I", "I", "D">>

\* The loop of generate_report over the rows: None has no strip(), and that
\* AttributeError is outside the try; a dosage float() rejects skips the row.
RECURSIVE ReportRows(_, _, _, _, _)
ReportRows(self, header, rows, allele_column, sample_col) ==
    IF rows = <<>> THEN Returned(<<>>)
    ELSE LET row == Head(rows)
             pid == RowGet(header, row, sample_col, <<>>)
             dosage == float_(RowGet(header, row, allele_column, <<"0">>))
             rest == ReportRows(self, header, Tail(rows), allele_column, sample_col)
         IN  IF pid.none THEN Raised("AttributeError")
             ELSE IF rest.outcome = "raised" THEN rest
             ELSE IF dosage.outcome = "raised" THEN rest
             ELSE Returned(
                    << [ participant_id |-> Strip(pid.s),
                         allele |-> allele_column,
                         dosage |-> dosage.value,
                         call |-> call_genotype(self, dosage.value),
                         r2_score |-> "None" ] >> \o rest.value)

\* generate_report(dosage_path, allele_column): the ClinicalReport, or the
\* exception that ends the call.
generate_report(self, file, allele_column) ==
    LET genotypes == ReportRows(self, file.header, file.rows, allele_column, IID)
    IN  IF genotypes.outcome = "raised" THEN genotypes
        ELSE Returned([allele |-> allele_column, genotypes |-> genotypes.value])

\* ClinicalReport.total_participants and carrier_count
total_participants(r) == Len(r.genotypes)

RECURSIVE CountCarriers(_)
CountCarriers(genotypes) ==
    IF genotypes = <<>> THEN 0
    ELSE (IF Head(genotypes).call /= "negative" THEN 1 ELSE 0)
         + CountCarriers(Tail(genotypes))

carrier_count(r) == CountCarriers(r.genotypes)

(***************************************************************************)
(* The parts of the state a scenario does not touch.                       *)
(***************************************************************************)
NoDir == [exists |-> FALSE, files |-> EmptyDir]
IdleStatus == status = SubBatchStatus(<<"s">>)
IdleVerify == fs = EmptyDir /\ vresult = NoCall /\ report = NoCall
IdleSplit ==
    /\ fam_file = <<>> /\ output_dir = NoDir
    /\ sub_batch_size = DefaultSubBatchSize /\ sresult = NoCall
IdleDeploy ==
    /\ source = EmptyDir /\ target = NoDir /\ backups = EmptyDir
    /\ clock = 0 /\ dreport = NoCall
IdleClin ==
    /\ dosage_file = [header |-> <<>>, rows |-> <<>>]
    /\ thresholds = ClinicalReporter(DefaultHomozygous, DefaultHeterozygous)
    /\ creport = NoCall

(***************************************************************************)
(* Scenario: a SubBatchStatus whose fields a caller reassigns.             *)
(***************************************************************************)
InitStatus == IdleStatus /\ IdleVerify /\ IdleSplit /\ IdleDeploy /\ IdleClin

NextStatus ==
    \/ \E f \in BoolFields, v \in BOOLEAN : AssignFlag(f, v)
    \/ \E n \in -1..MaxCount : AssignMarkerCount(n)

SpecStatus == InitStatus /\ [][NextStatus]_vars

(***************************************************************************)
(* Scenario: the artifacts of one sub-batch are produced, then verified.   *)
(***************************************************************************)
\* The imputation tool leaves an artifact (empty so far) at name n.
TouchArtifact(n) ==
    /\ ~Exists(fs, n)
    /\ fs' = Put(fs, n, File(<<>>))
    /\ UNCHANGED <<statusVars, vresult, report, splitVars, deployVars, clinVars>>

\* One more line is written to the file at name n.
AppendLine(n, line) ==
    /\ Exists(fs, n) /\ fs[n].kind = "file"
    /\ Len(fs[n].lines) < MaxLines
    /\ fs' = Put(fs, n, File(Append(fs[n].lines, line)))
    /\ UNCHANGED <<statusVars, vresult, report, splitVars, deployVars, clinVars>>

\* Something that is no regular file sits at name n.
MakeDir(n) ==
    /\ ~Exists(fs, n)
    /\ fs' = Put(fs, n, Directory)
    /\ UNCHANGED <<statusVars, vresult, report, splitVars, deployVars, clinVars>>

RemoveArtifact(n) ==
    /\ Exists(fs, n)
    /\ fs' = Del(fs, n)
    /\ UNCHANGED <<statusVars, vresult, report, splitVars, deployVars, clinVars>>

VerifySubBatch(prefix, oneBuffer) ==
    /\ vresult' = verify_sub_batch(fs, prefix, oneBuffer)
    /\ UNCHANGED <<statusVars, fs, report, splitVars, deployVars, clinVars>>

SubPrefix == <<"s">>

BimLines ==
    { <<"6", "\t", "H", "L", "A", "_", "A">>,
      <<"h", "l", "a", "_", "a">>,
      <<"H", "L", "A">>,
      <<BadByte>> }

LogLines ==
    { <<"F", "i", "n", "i", "s", "h", "e", "d">>,
      <<"C", "O", "M", "P", "L", "E", "T", "E", "D">>,
      <<"f", "i", "n", "i", "s", "h">>,
      <<BadByte>> }

SubBim == WithSuffix(SubPrefix, BIM)
SubLog == SubPrefix \o BGL_LOG
SubNames ==
    { WithSuffix(SubPrefix, BED), SubBim, WithSuffix(SubPrefix, FAM),
      WithSuffix(SubPrefix, DOSAGE), SubPrefix \o BGL_R2, SubLog }

InitSub == IdleStatus /\ IdleVerify /\ IdleSplit /\ IdleDeploy /\ IdleClin

NextSub ==
    \/ /\ vresult = NoCall
       /\ \/ \E n \in SubNames : TouchArtifact(n)
          \/ \E line \in BimLines : AppendLine(SubBim, line)
          \/ \E line \in LogLines : AppendLine(SubLog, line)
          \/ \E n \in {SubBim, SubLog} : MakeDir(n)
          \/ \E n \in SubNames : RemoveArtifact(n)
    \/ /\ vresult = NoCall
       /\ \E oneBuffer \in BOOLEAN : VerifySubBatch(SubPrefix, oneBuffer)

SpecSub == InitSub /\ [][NextSub]_vars

(***************************************************************************)
(* Properties of SubBatchStatus and verify_sub_batch.                      *)
(***************************************************************************)
\* C1: is_complete is true exactly when the six presence flags are all true,
\* hla_marker_count > 0 and beagle_completed is true, whatever has been
\* assigned to the fields; it is computed from them and is no stored field.
IsCompleteIsDerived ==
    /\ is_complete(status) <=>
          /\ status.has_bed /\ status.has_bim /\ status.has_fam
          /\ status.has_dosage /\ status.has_r2 /\ status.has_log
          /\ status.hla_marker_count > 0
          /\ status.beagle_completed
    /\ "is_complete" \notin DOMAIN status

\* A status made complete by assignments, and one a single assignment away.
CompleteAfterAssignments ==
    /\ is_complete(status)
    /\ status.hla_marker_count = MaxCount

\* What C2 says verify_sub_batch computes from the directory.
ExpectedMarkers(d) ==
    IF Exists(d, SubBim)
    THEN Cardinality({i \in DOMAIN d[SubBim].lines : Contains(d[SubBim].lines[i], HLA_)})
    ELSE 0

ExpectedCompleted(d) ==
    /\ Exists(d, SubLog)
    /\ \E i \in DOMAIN d[SubLog].lines :
          \/ Contains(Lower(d[SubLog].lines[i]), finished)
          \/ Contains(Lower(d[SubLog].lines[i]), completed)

\* The same values, for the calls that do return.
VerifySubBatchWhenReturned ==
    vresult.outcome = "returned" =>
        /\ vresult.value.has_bed = Exists(fs, WithSuffix(SubPrefix, BED))
        /\ vresult.value.has_bim = Exists(fs, SubBim)
        /\ vresult.value.has_fam = Exists(fs, WithSuffix(SubPrefix, FAM))
        /\ vresult.value.has_dosage = Exists(fs, WithSuffix(SubPrefix, DOSAGE))
        /\ vresult.value.has_r2 = Exists(fs, SubPrefix \o BGL_R2)
        /\ vresult.value.has_log = Exists(fs, SubLog)
        /\ vresult.value.hla_marker_count = ExpectedMarkers(fs)
        /\ vresult.value.beagle_completed = ExpectedCompleted(fs)

\* C2: verify_sub_batch never raises, whichever artifacts are present, missing
\* or malformed; each flag is the existence of its artifact, the marker count
\* is the number of .bim lines containing HLA_ (0 without a .bim), and
\* beagle_completed tells whether a log line contains finished or completed
\* in any letter case.
VerifySubBatchNeverRaises ==
    vresult.outcome /= "none" =>
        /\ vresult.outcome = "returned"
        /\ vresult.value.has_bed = Exists(fs, WithSuffix(SubPrefix, BED))
        /\ vresult.value.has_bim = Exists(fs, SubBim)
        /\ vresult.value.has_fam = Exists(fs, WithSuffix(SubPrefix, FAM))
        /\ vresult.value.has_dosage = Exists(fs, WithSuffix(SubPrefix, DOSAGE))
        /\ vresult.value.has_r2 = Exists(fs, SubPrefix \o BGL_R2)
        /\ vresult.value.has_log = Exists(fs, SubLog)
        /\ vresult.value.hla_marker_count = ExpectedMarkers(fs)
        /\ vresult.value.beagle_completed = ExpectedCompleted(fs)

(***************************************************************************)
(* Scenario: the sub-batches of one batch directory, then verify_batch.    *)
(***************************************************************************)
VerifyBatch(dirName, batch_id, oneBuffer) ==
    /\ LET r == verify_batch(fs, dirName, batch_id, oneBuffer)
       IN  report' = [outcome |-> r.outcome, value |-> r.value, arg |-> batch_id]
    /\ UNCHANGED <<statusVars, fs, vresult, splitVars, deployVars, clinVars>>

BatchDirName == <<"b", "1">>
BatchIds == {<<>>, <<"X">>}
\* Sub-batch prefixes: plain ones, and one with a dot of its own.
BatchStems == {<<"a">>, <<"B">>, <<"a", ".", "b">>}
BatchFams == {stem \o FAM : stem \in BatchStems}
BatchBims == {stem \o BIM : stem \in BatchStems}
\* A name that only resembles a sample file.
NotAFam == <<"f", "a", "m">>
BatchBimLines == {<<"H", "L", "A", "_", "A">>, <<BadByte>>}

InitBatch == IdleStatus /\ IdleVerify /\ IdleSplit /\ IdleDeploy /\ IdleClin

NextBatch ==
    \/ /\ report = NoCall
       /\ \/ \E n \in BatchFams \cup BatchBims \cup {NotAFam} : TouchArtifact(n)
          \/ \E n \in BatchBims, line \in BatchBimLines : AppendLine(n, line)
          \/ \E n \in BatchFams \cup BatchBims : RemoveArtifact(n)
    \/ /\ report = NoCall
       /\ \E batch_id \in BatchIds, oneBuffer \in BOOLEAN :
             VerifyBatch(BatchDirName, batch_id, oneBuffer)

SpecBatch == InitBatch /\ [][NextBatch]_vars

\* The position of a sample file among the sample files of the directory.
Rank(d, f) == 1 + Cardinality({g \in Glob(d, FAM) : LexLess(g, f)})

\* The shape C3 gives the report: one entry, under the supplied batch_id or
\* else the directory name, with one status per .fam file in sorted order.
ReportShape(r, d) ==
    LET key == IF r.arg /= <<>> THEN r.arg ELSE BatchDirName
    IN  /\ DOMAIN r.value = {key}
        /\ Len(r.value[key]) = Cardinality(Glob(d, FAM))
        /\ \A f \in Glob(d, FAM) :
              r.value[key][Rank(d, f)].name = SubSeq(f, 1, Len(f) - Len(FAM))

\* C3: verify_batch returns a report with exactly one entry, keyed by the
\* supplied batch_id or else by the directory name, holding one SubBatchStatus
\* per .fam file of the directory in sorted file-name order (none, and no
\* error, when there is no .fam file).
VerifyBatchReturnsReport ==
    report.outcome /= "none" =>
        /\ report.outcome = "returned"
        /\ ReportShape(report, fs)

\* The same shape, for the calls that do return.
VerifyBatchShapeWhenReturned ==
    report.outcome = "returned" => ReportShape(report, fs)

\* The status of the sub-batch of sample file f says which of the six
\* artifacts named after the stem of f are in the directory.
StatusOfStem(r, d, f) ==
    LET key == IF r.arg /= <<>> THEN r.arg ELSE BatchDirName
        stem == SubSeq(f, 1, Len(f) - Len(FAM))
        st == r.value[key][Rank(d, f)]
    IN  /\ st.name = stem
        /\ st.has_fam
        /\ st.has_bed = Exists(d, stem \o BED)
        /\ st.has_bim = Exists(d, stem \o BIM)
        /\ st.has_dosage = Exists(d, stem \o DOSAGE)
        /\ st.has_r2 = Exists(d, stem \o BGL_R2)
        /\ st.has_log = Exists(d, stem \o BGL_LOG)

\* C13: every sub-batch verify_batch discovers from a sample file <stem>.fam,
\* whatever the stem (also one with a dot in it), gets a status with
\* has_fam true and name <stem>, and its six artifact checks are all made of
\* the files <stem>.bed, .bim, .fam, .dosage, .bgl.r2 and .bgl.log.
DiscoveredStatusIsOfItsStem ==
    report.outcome = "returned" =>
        \A f \in Glob(fs, FAM) : StatusOfStem(report, fs, f)

\* The same, for the sample files whose stem has no dot.
DiscoveredStatusOfPlainStem ==
    report.outcome = "returned" =>
        \A f \in Glob(fs, FAM) :
            RFindDot(SubSeq(f, 1, Len(f) - Len(FAM))) = 0 => StatusOfStem(report, fs, f)

(***************************************************************************)
(* Scenario: a VerificationReport that gathers several batches.            *)
(***************************************************************************)
\* report.batch_statuses[bid] = sub_statuses
SetBatch(bid, sub_statuses) ==
    /\ report.outcome = "returned"
    /\ report' = [report EXCEPT !.value = Put(@, bid, sub_statuses)]
    /\ UNCHANGED <<statusVars, fs, vresult, splitVars, deployVars, clinVars>>

\* del report.batch_statuses[bid]
DropBatch(bid) ==
    /\ report.outcome = "returned"
    /\ bid \in DOMAIN report.value
    /\ report' = [report EXCEPT !.value = Del(@, bid)]
    /\ UNCHANGED <<statusVars, fs, vresult, splitVars, deployVars, clinVars>>

CompleteStatus(n) ==
    [ SubBatchStatus(n) EXCEPT
        !.has_bed = TRUE, !.has_bim = TRUE, !.has_fam = TRUE,
        !.has_dosage = TRUE, !.has_r2 = TRUE, !.has_log = TRUE,
        !.hla_marker_count = 1, !.beagle_completed = TRUE ]

StatusChoices ==
    { CompleteStatus(<<"a">>),
      SubBatchStatus(<<"b">>),
      [CompleteStatus(<<"c">>) EXCEPT !.hla_marker_count = 0] }

ReportBatchIds == {<<"X">>, <<"Y">>}

RECURSIVE SeqsUpTo(_, _)
SeqsUpTo(S, n) ==
    IF n = 0 THEN {<<>>}
    ELSE LET shorter == SeqsUpTo(S, n - 1)
         IN  shorter \cup {Append(q, x) : q \in shorter, x \in S}

\* VerificationReport(): the default batch_statuses is an empty dict.
InitReport ==
    /\ IdleStatus /\ IdleSplit /\ IdleDeploy /\ IdleClin
    /\ fs = EmptyDir /\ vresult = NoCall
    /\ report = [outcome |-> "returned", value |-> EmptyDir, arg |-> <<>>]

NextReport ==
    \/ \E bid \in ReportBatchIds, subs \in SeqsUpTo(StatusChoices, MaxSubs) :
          SetBatch(bid, subs)
    \/ \E bid \in ReportBatchIds : DropBatch(bid)

SpecReport == InitReport /\ [][NextReport]_vars

\* The statuses of a report, each named by its batch and position.
AllSlots(r) == {<<b, i>> : b \in DOMAIN r, i \in 1..MaxSubs}
CountedSlots(r) == {x \in AllSlots(r) : x[2] <= Len(r[x[1]])}
CompleteSlots(r) ==
    { x \in CountedSlots(r) :
        LET s == r[x[1]][x[2]]
        IN  /\ s.has_bed /\ s.has_bim /\ s.has_fam /\ s.has_dosage /\ s.has_r2
            /\ s.has_log /\ s.hla_marker_count > 0 /\ s.beagle_completed }

\* C4: completeness_rate never raises; it is 0.0 for a report without
\* sub-batches and otherwise complete/total, total being the number of statuses
\* of all batches and complete the number of them that are complete, so that
\* 0 <= complete <= total.
CompletenessRateDefined ==
    report.outcome = "returned" =>
        LET r == report.value
            rate == completeness_rate(r)
            total == Cardinality(CountedSlots(r))
            complete == Cardinality(CompleteSlots(r))
        IN  /\ rate.outcome = "returned"
            /\ total_sub_batches(r) = total
            /\ complete_sub_batches(r) = complete
            /\ 0 <= complete /\ complete <= total
            /\ total = 0 => rate.value = FloatZero
            /\ total > 0 => rate.value = [num |-> complete, den |-> total]

\* A report of two full batches of which some but not all statuses are complete.
MixedReportRate ==
    /\ report.outcome = "returned"
    /\ DOMAIN report.value = ReportBatchIds
    /\ complete_sub_batches(report.value) > 0
    /\ complete_sub_batches(report.value) < total_sub_batches(report.value)
    /\ \A b \in ReportBatchIds : Len(report.value[b]) = MaxSubs

(***************************************************************************)
(* Scenario: a .fam file split, and split again, into one directory.       *)
(***************************************************************************)
SplitFam(arg) ==
    /\ LET r == split_fam(fam_file, output_dir, arg, sub_batch_size)
       IN  /\ output_dir' = r.dir
           /\ sresult' = [outcome |-> r.result.outcome, value |-> r.result.value,
                          arg |-> arg,
                          again |-> sresult.outcome /= "none" /\ sresult.arg = arg]
    /\ UNCHANGED <<statusVars, verifyVars, fam_file, sub_batch_size, deployVars, clinVars>>

FamLines ==
    { <<"S", "1">>, <<" ", "S", "3", "\t">>, <<" ">> }

ConfigSizes == {0, 2, DefaultSubBatchSize}

BatchSizeArgs == {None} \cup {Int_(n) : n \in -1..MaxBatch}

InitSplit ==
    /\ IdleStatus /\ IdleVerify /\ IdleDeploy /\ IdleClin
    /\ fam_file \in SeqsUpTo(FamLines, MaxFam)
    /\ sub_batch_size \in ConfigSizes
    /\ output_dir = NoDir
    /\ sresult = NoCall

NextSplit == \E arg \in BatchSizeArgs : SplitFam(arg)

SpecSplit == InitSplit /\ [][NextSplit]_vars

(***************************************************************************)
(* Properties of split_fam.                                                *)
(***************************************************************************)
\* The batch size a call is given: the argument, or the configured size when
\* the argument is left out.
GivenBatchSize == IF sresult.arg.given THEN sresult.arg.n ELSE sub_batch_size

\* The non-blank lines of the input, as they stand in the file.
NonBlankLines(lines) == SelectSeq(lines, LAMBDA l : \E i \in DOMAIN l : l[i] \notin Whitespace)

\* The lines of a text: the pieces that end in a newline.
RECURSIVE LinesOf(_, _)
LinesOf(text, current) ==
    IF text = <<>> THEN (IF current = <<>> THEN <<>> ELSE <<current>>)
    ELSE IF Head(text) = "\n" THEN <<current>> \o LinesOf(Tail(text), <<>>)
    ELSE LinesOf(Tail(text), Append(current, Head(text)))

\* The lines of the sub-batch file at returned position k.
ChunkLines(k) == LinesOf(output_dir.files[sresult.value[k]].text, <<>>)

RECURSIVE ConcatChunks(_)
ConcatChunks(k) == IF k = 0 THEN <<>> ELSE ConcatChunks(k - 1) \o ChunkLines(k)

CeilDiv(n, b) == (n + b - 1) \div b

\* What C5 says of the count, the labels and the sizes of the chunks.
SplitCountsAndSizes(n, b) ==
    /\ sresult.outcome = "returned"
    /\ Len(sresult.value) = CeilDiv(n, b)
    /\ \A k \in DOMAIN sresult.value :
          /\ sresult.value[k] = SubBatchName(k)
          /\ sresult.value[k] \in DOMAIN output_dir.files
          /\ k < Len(sresult.value) => Len(ChunkLines(k)) = b
          /\ k = Len(sresult.value) =>
                Len(ChunkLines(k)) = (IF n % b = 0 THEN b ELSE n % b)

SplitCase ==
    /\ sresult.outcome /= "none"
    /\ GivenBatchSize >= 1
    /\ Len(NonBlankLines(fam_file)) >= 1

\* C5: for n >= 1 samples and batch size b >= 1, split_fam returns ceil(n/b)
\* sub-batch files in index order, every chunk of b samples but the last, which
\* has n mod b (or b); the lines of the files, concatenated in that order, are
\* the non-blank lines of the input in their order.
SplitReproducesInputLines ==
    SplitCase =>
        /\ SplitCountsAndSizes(Len(NonBlankLines(fam_file)), GivenBatchSize)
        /\ ConcatChunks(Len(sresult.value)) = NonBlankLines(fam_file)

\* C5 as amended: the same, the concatenated lines being the non-blank input
\* lines each with its leading and trailing whitespace stripped.
SplitReproducesStrippedLines ==
    SplitCase =>
        /\ SplitCountsAndSizes(Len(NonBlankLines(fam_file)), GivenBatchSize)
        /\ ConcatChunks(Len(sresult.value)) =
              [i \in DOMAIN NonBlankLines(fam_file) |-> Strip(NonBlankLines(fam_file)[i])]

\* A split into several chunks, the last one short, of a file with a blank
\* line and a line that has whitespace around its sample.
SplitWithRemainder ==
    /\ SplitCase
    /\ Len(sresult.value) >= 2
    /\ Len(NonBlankLines(fam_file)) % GivenBatchSize /= 0
    /\ Len(NonBlankLines(fam_file)) < Len(fam_file)
    /\ \E i \in DOMAIN fam_file : fam_file[i] /= Strip(fam_file[i]) /\ Strip(fam_file[i]) /= <<>>

\* C6: split_fam given a batch size <= 0 fails with an error and returns no
\* list of sub-batch files.
SplitRejectsNonPositiveBatchSize ==
    (sresult.outcome /= "none" /\ GivenBatchSize <= 0) => sresult.outcome = "raised"

\* C11: running split_fam again with the same input file, output directory
\* and batch size overwrites the sub-batch files and changes nothing: the
\* outcome and the returned paths are those of the run before, and every
\* file of the output directory holds what it held after the run before.
SplitRerunChangesNothing ==
    [][ (sresult'.outcome /= "none" /\ sresult'.again) =>
            /\ output_dir' = output_dir
            /\ sresult'.outcome = sresult.outcome
            /\ sresult'.value = sresult.value ]_vars

\* A second run with the arguments of the first, over the several sub-batch
\* files the first run left in the directory.
SplitRunTwice ==
    /\ sresult.outcome = "returned"
    /\ sresult.again
    /\ Len(sresult.value) >= 2
    /\ \A k \in DOMAIN sresult.value : sresult.value[k] \in DOMAIN output_dir.files

(***************************************************************************)
(* Scenario: results are deployed to production again and again.           *)
(***************************************************************************)
Deploy(dry_run, order) ==
    /\ LET r == deploy(source, target, backups, clock, dry_run, order)
       IN  /\ target' = r.target
           /\ backups' = r.backups
           /\ dreport' = [ outcome |-> "returned", value |-> r.report,
                           arg |-> dry_run,
                           before |-> [ source |-> source, target |-> target,
                                        backups |-> backups ] ]
    /\ UNCHANGED <<statusVars, verifyVars, splitVars, source, clock, clinVars>>

\* datetime.now() moves on to the next second.
Tick ==
    /\ clock < MaxClock
    /\ clock' = clock + 1
    /\ UNCHANGED <<statusVars, verifyVars, splitVars, source, target, backups, dreport, clinVars>>

\* The pipeline leaves a new result file in the source directory.
NewResult(n, content) ==
    /\ source' = Put(source, n, content)
    /\ UNCHANGED <<statusVars, verifyVars, splitVars, target, backups, clock, dreport, clinVars>>

ImputedBed == <<"i">> \o BED
ImputedFam == <<"i">> \o FAM
OldBed == <<"o">> \o BED
Notes == <<"n", ".", "t", "x", "t">>

SourceNames == {ImputedBed, ImputedFam}
TargetNames == {ImputedBed, OldBed}

InitDeploy ==
    /\ IdleStatus /\ IdleVerify /\ IdleSplit /\ IdleClin
    /\ \E S \in SUBSET SourceNames : source = [n \in S \cup {Notes} |-> "new"]
    /\ \/ target = NoDir
       \/ \E S \in SUBSET TargetNames :
             target = [exists |-> TRUE, files |-> [n \in S \cup {Notes} |-> "old"]]
    /\ backups = EmptyDir
    /\ clock = 0
    /\ dreport = NoCall

NextDeploy ==
    \/ \E dry_run \in BOOLEAN, order \in {"asc", "desc"} : Deploy(dry_run, order)
    \/ Tick
    \/ \E n \in SourceNames : NewResult(n, "newer")

SpecDeploy == InitDeploy /\ [][NextDeploy]_vars

(***************************************************************************)
(* Properties of deploy.                                                   *)
(***************************************************************************)
HasDeployedExtension(n) ==
    \E i \in DOMAIN DEFAULT_EXTENSIONS : EndsWith(n, DEFAULT_EXTENSIONS[i])

\* The names of a directory that have a deployed extension.
Matching(d) == {n \in DOMAIN d : HasDeployedExtension(n)}

Range(q) == {q[i] : i \in DOMAIN q}

\* C7: a dry run writes nothing: the target is not created, no file is copied
\* into it and no backup is made; files_deployed lists every source file with a
\* deployed extension, and the report is not verified.
DryRunWritesNothing ==
    (dreport.outcome /= "none" /\ dreport.arg) =>
        /\ target = dreport.before.target
        /\ backups = dreport.before.backups
        /\ Range(dreport.value.files_deployed) = Matching(dreport.before.source)
        /\ ~dreport.value.verified

\* C8: a deploy that is no dry run, into an existing target and with a source
\* file to deploy, backs up exactly the files the target held with a deployed
\* extension before the call (same count, same names, their content of before
\* the call); afterwards every source file with a deployed extension is in the
\* target and the report is verified -- after any earlier deployments.
BackupCase ==
    /\ dreport.outcome /= "none"
    /\ ~dreport.arg
    /\ dreport.before.target.exists
    /\ Matching(dreport.before.source) /= {}

BackupThenDeploy ==
    BackupCase =>
        LET old == dreport.before.target.files
            r == dreport.value
        IN  /\ Len(r.files_backed_up) = Cardinality(Matching(old))
            /\ Range(r.files_backed_up) = Matching(old)
            /\ r.backup_dir \in DOMAIN backups
            /\ \A n \in Matching(old) :
                  /\ n \in DOMAIN backups[r.backup_dir]
                  /\ backups[r.backup_dir][n] = old[n]
            /\ \A n \in Matching(dreport.before.source) :
                  n \in DOMAIN target.files /\ target.files[n] = dreport.before.source[n]
            /\ r.verified

\* A second real deployment within one second: the backup directory of that
\* second already holds the first backup, and a file is overwritten again.
SecondBackupSameSecond ==
    /\ BackupCase
    /\ dreport.value.backup_dir \in DOMAIN dreport.before.backups
    /\ dreport.before.backups[dreport.value.backup_dir] /= EmptyDir
    /\ \E n \in Matching(dreport.before.source) :
          /\ n \in DOMAIN dreport.before.target.files
          /\ dreport.before.target.files[n] /= dreport.before.source[n]
          /\ backups[dreport.value.backup_dir][n] /= target.files[n]

(***************************************************************************)
(* Scenario: dosages classified by reporters of various thresholds.        *)
(***************************************************************************)
CallGenotype(dosage) ==
    /\ creport' = [ outcome |-> "returned",
                    value |-> call_genotype(thresholds, dosage),
                    arg |-> dosage ]
    /\ UNCHANGED <<statusVars, verifyVars, splitVars, deployVars, dosage_file, thresholds>>

ThresholdChoices == {0, DefaultHeterozygous, 10, DefaultHomozygous}
Dosages == {Float(v) : v \in -1..MaxDosage} \cup {NaN}

InitGenotype ==
    /\ IdleStatus /\ IdleVerify /\ IdleSplit /\ IdleDeploy
    /\ dosage_file = [header |-> <<>>, rows |-> <<>>]
    /\ \E homo \in ThresholdChoices, hetero \in ThresholdChoices :
          thresholds = ClinicalReporter(homo, hetero)
    /\ creport = NoCall

NextGenotype == \E dosage \in Dosages : CallGenotype(dosage)

SpecGenotype == InitGenotype /\ [][NextGenotype]_vars

\* C9: the call is homozygous if d >= homo_threshold, otherwise heterozygous
\* if d > hetero_threshold, otherwise negative -- so a d equal to
\* hetero_threshold (and below homo_threshold) is negative -- and it is always
\* one of the three values, fixed by d and the two thresholds.
GenotypeCallByThresholds ==
    creport.outcome = "returned" =>
        LET d == creport.arg
            homo == thresholds.homo_threshold.v
            hetero == thresholds.hetero_threshold.v
            atLeastHomo == ~d.nan /\ d.v >= homo
            aboveHetero == ~d.nan /\ d.v > hetero
        IN  /\ creport.value \in {"homozygous", "heterozygous", "negative"}
            /\ creport.value = "homozygous" <=> atLeastHomo
            /\ creport.value = "heterozygous" <=> (~atLeastHomo /\ aboveHetero)
            /\ creport.value = "negative" <=> (~atLeastHomo /\ ~aboveHetero)
            /\ (~d.nan /\ d.v = hetero /\ d.v < homo) => creport.value = "negative"

\* A dosage exactly at hetero_threshold, below homo_threshold, was classified.
DosageAtHeteroThreshold ==
    /\ creport.outcome = "returned"
    /\ ~creport.arg.nan
    /\ creport.arg.v = thresholds.hetero_threshold.v
    /\ creport.arg.v < thresholds.homo_threshold.v
    /\ thresholds.hetero_threshold.v = DefaultHeterozygous

(***************************************************************************)
(* Scenario: a clinical report generated from a dosage file.               *)
(***************************************************************************)
GenerateReport(allele_column) ==
    /\ LET r == generate_report(thresholds, dosage_file, allele_column)
       IN  creport' = [outcome |-> r.outcome, value |-> r.value, arg |-> allele_column]
    /\ UNCHANGED <<statusVars, verifyVars, splitVars, deployVars, dosage_file, thresholds>>

FID == <<"F", "I", "D">>
AlleleA == <<"A">>
AlleleB == <<"B">>
Headers == {<<FID, IID, AlleleA>>, <<AlleleA, FID, IID>>}

\* Data rows in the column order FID, IID, A: good, at the boundary, padded,
\* not numeric, empty, NaN, without the dosage field, and without IID too.
RowShapes ==
    { << <<"S", "1">>, <<"S", "1">>, <<"1", ".", "8">> >>,
      << <<"S", "2">>, <<"S", "2">>, <<"0", ".", "5">> >>,
      << <<"S", "3">>, <<" ", "S", "3">>, <<" ", "0", ".", "9", " ">> >>,
      << <<"S", "4">>, <<"S", "4">>, <<"a", "b", "c">> >>,
      << <<"S", "5">>, <<"S", "5">>, <<>> >>,
      << <<"S", "6">>, <<"S", "6">>, <<"N", "a", "N">> >>,
      << <<"S", "7">>, <<"S", "7">> >>,
      << <<"S", "8">> >> }

\* A row of RowShapes laid out under the given header; a short row keeps its
\* fields, which then stand under the first columns of that header.
LayOut(header, shape) ==
    IF header[1] /= FID /\ Len(shape) = 3 THEN <<shape[3], shape[1], shape[2]>>
    ELSE shape

RowsFor(header) == {LayOut(header, shape) : shape \in RowShapes}

InitClinical ==
    /\ IdleStatus /\ IdleVerify /\ IdleSplit /\ IdleDeploy
    /\ \E header \in Headers :
          \E rows \in SeqsUpTo(RowsFor(header), MaxRows) :
             dosage_file = [header |-> header, rows |-> rows]
    /\ thresholds = ClinicalReporter(DefaultHomozygous, DefaultHeterozygous)
    /\ creport = NoCall

NextClinical == \E allele_column \in {AlleleA, AlleleB} : GenerateReport(allele_column)

SpecClinical == InitClinical /\ [][NextClinical]_vars

(***************************************************************************)
(* Properties of generate_report.                                          *)
(***************************************************************************)
\* A row that has a field under the allele column which is a number.
NumericRow(file, row, allele_column) ==
    /\ ColumnIndex(file.header, allele_column) \in 1..Len(row)
    /\ float_(Str(row[ColumnIndex(file.header, allele_column)])).outcome = "returned"

NumericRows(file, allele_column) ==
    SelectSeq(file.rows, LAMBDA row : NumericRow(file, row, allele_column))

\* What C10 says of the outcome of a call.
ReportAsClaimed ==
    /\ creport.outcome = "returned"
    /\ LET numeric == NumericRows(dosage_file, creport.arg)
           col == ColumnIndex(dosage_file.header, creport.arg)
           g == creport.value.genotypes
       IN  /\ Len(g) = Len(numeric)
           /\ \A k \in DOMAIN numeric :
                 /\ g[k].dosage = float_(Str(numeric[k][col])).value
                 /\ g[k].participant_id =
                       Strip(numeric[k][ColumnIndex(dosage_file.header, IID)])
           /\ total_participants(creport.value) = Len(numeric)
           /\ carrier_count(creport.value) =
                 Cardinality({k \in DOMAIN g : g[k].call /= "negative"})

\* C10: generate_report never raises on a row whose allele value is no number
\* but drops it: the genotypes are exactly the rows with a numeric dosage, one
\* record per row in file order, total_participants is their number and
\* carrier_count the number of them not called negative.
ReportHoldsNumericRows == creport.outcome /= "none" => ReportAsClaimed

\* The same statement for the files whose rows all have the participant and
\* the allele field: there the call returns and the report is as C10 says.
CompleteRows(file, allele_column) ==
    /\ ColumnIndex(file.header, allele_column) /= 0
    /\ \A i \in DOMAIN file.rows : Len(file.rows[i]) = Len(file.header)

ReportOfCompleteRows ==
    (creport.outcome /= "none" /\ CompleteRows(dosage_file, creport.arg)) => ReportAsClaimed

(***************************************************************************)
(* Scenario: a long .fam file is split, and the split is followed at two   *)
(* of its chunks; verify_batch then discovers what the two left behind.    *)
(***************************************************************************)
\* The chunk indexes at which the label gains a digit, and their neighbours.
ChunkIndexes ==
    {k \in UNION { {10^d - 1, 10^d, 10^d + 1} : d \in 0..MaxDigits } : k >= 1}

LabelBatchSizes == {1, 2}

\* The samples read from a .fam file of n lines.
ManySamples(n) == [s \in 1..n |-> <<"S">>]

\* The iteration of split_fam's loop at offset i: it reads samples[i:i+batch_size].
LoopAt(samples, i, batch_size) ==
    SplitLoop(SubSeq(samples, 1, i + batch_size), i, batch_size)

\* The iterations at offsets i < j of one run of split_fam.
SplitChunks(i, j, batch_size) ==
    /\ sresult = NoCall
    /\ LET samples == ManySamples(j + batch_size)
           writes == LoopAt(samples, i, batch_size) \o LoopAt(samples, j, batch_size)
       IN  /\ output_dir' = [exists |-> TRUE, files |-> WriteAll(EmptyDir, writes)]
           /\ sresult' = [outcome |-> "returned",
                          value |-> [k \in DOMAIN writes |-> writes[k].name],
                          arg |-> Int_(batch_size), again |-> FALSE]
    /\ UNCHANGED <<statusVars, verifyVars, fam_file, sub_batch_size, deployVars, clinVars>>

\* verify_batch over the output directory of the split.
DiscoverChunks ==
    /\ sresult.outcome = "returned"
    /\ report = NoCall
    /\ LET r == verify_batch(output_dir.files, BatchDirName, <<>>, FALSE)
       IN  report' = [outcome |-> r.outcome, value |-> r.value, arg |-> <<>>]
    /\ UNCHANGED <<statusVars, fs, vresult, splitVars, deployVars, clinVars>>

InitLabels == IdleStatus /\ IdleVerify /\ IdleSplit /\ IdleDeploy /\ IdleClin

NextLabels ==
    \/ \E batch_size \in LabelBatchSizes, k1, k2 \in ChunkIndexes :
          /\ k1 < k2
          /\ SplitChunks((k1 - 1) * batch_size, (k2 - 1) * batch_size, batch_size)
    \/ DiscoverChunks

SpecLabels == InitLabels /\ [][NextLabels]_vars

\* The sub-batch names of a report's one entry, in the order of the visit.
VisitedNames(r) ==
    LET statuses == r.value[BatchDirName]
    IN  [n \in DOMAIN statuses |-> statuses[n].name \o FAM]

\* C12: whatever the number of chunks, the names split_fam gives its chunks
\* sort lexically in index order, so the sorted discovery of verify_batch
\* visits the sub-batches in the order in which split_fam produced them.
ChunksVisitedInIndexOrder ==
    (sresult.outcome = "returned" /\ report.outcome = "returned") =>
        VisitedNames(report) = sresult.value

\* The same, for chunks whose index has at most three digits.
ChunksVisitedInIndexOrderTo999 ==
    ( /\ sresult.outcome = "returned" /\ report.outcome = "returned"
      /\ \A k \in DOMAIN sresult.value : Len(sresult.value[k]) = Len(SubBatchName(1)) ) =>
        VisitedNames(report) = sresult.value

====
